---- MODULE Spec2Model ----
(***************************************************************************)
(* Model of src/hooks/useAnimatedKeyboard.ts: the hook that turns keyboard *)
(* show/hide notifications into the shared KeyboardState, caching a show   *)
(* event that arrives before the focused input (target) is known.          *)
(*                                                                         *)
(* Two execution contexts are modelled.  Listeners run on the JS thread    *)
(* and only enqueue a call of handleKeyboardEvent (runOnUI); the UI thread *)
(* runs the queued calls in order and, between them, the reaction that     *)
(* watches state.target.                                                   *)
(*                                                                         *)
(* Encoding of JavaScript values:                                          *)
(*   - an optional number (duration, bottomOffset) is a sequence of length *)
(*     at most one: << >> is undefined, <<n>> is the number n;             *)
(*   - an optional string (target, easing) is a string, "undefined" when   *)
(*     absent; the reaction's first `previous` is "null";                  *)
(*   - temporaryCachedState is << >> for null and <<r>> for the object r.  *)
(***************************************************************************)
EXTENDS Integers, Sequences, FiniteSets, TLC

VARIABLES
    platformOS,            \* Platform.OS
    rnkcAvailable,         \* KeyboardControllerEvents # null (lines 22-31)
    phase,                 \* "rendered" | "mounted" | "disposed" (the subscription effect)
    showSubscription,      \* listener registered for KEYBOARD_SHOW
    hideSubscription,      \* listener registered for KEYBOARD_HIDE
    state,                 \* the shared value `state`
    temporaryCachedState,  \* the shared value `temporaryCachedState`
    previous,              \* the target the reaction observed on its last run
    dirty,                 \* `state` was written since the reaction last ran
    uiQueue,               \* calls handed to runOnUI and not yet executed
    emittedAfterDisposal,  \* history: the platform emitted a notification after disposal
    lastCommit             \* history: who last called state.set in handleKeyboardEvent:
                           \* "none", "event" (a queued listener call) or "replay" (the reaction)

vars == <<platformOS, rnkcAvailable, phase, showSubscription, hideSubscription,
          state, temporaryCachedState, previous, dirty, uiQueue, emittedAfterDisposal,
          lastCommit>>

----------------------------------------------------------------------------
(* Bounds *)

MaxQueue == 1

(* Values the environment draws its inputs from *)

undefined == "undefined"
null == "null"
undefinedNum == << >>
Num(n) == <<n>>

Platforms == {"ios", "android", "web"}
Targets == {"A", "B"}
Heights == {280, 300}
ScreenYs == {500, 520}
ContainerHeights == {0, 120}
Phases == {"rendered", "mounted", "disposed"}
EventNames == {"keyboardWillShow", "keyboardDidShow",
               "keyboardWillHide", "keyboardDidHide"}
Emitters == {"Keyboard", "KeyboardControllerEvents"}

\* A payload of a react-native Keyboard notification.
KeyboardEvent(height, screenY, duration, easing) ==
    [endCoordinates |-> [height |-> height, screenY |-> screenY],
     duration |-> duration, easing |-> easing]

\* The Keyboard payloads the platform emits here: every combination of the
\* heights and screen offsets, one of them without duration and easing.
KeyboardEvents ==
    LET untimed == [height |-> 280, screenY |-> 520]
    IN  {KeyboardEvent(c.height, c.screenY,
                       IF c = untimed THEN undefinedNum ELSE Num(250),
                       IF c = untimed THEN undefined ELSE "keyboard") :
            c \in [height : Heights, screenY : ScreenYs]}

\* The react-native-keyboard-controller payloads the platform emits here:
\* with a duration (0: no animation) or without one.
ControllerEvents ==
    {[height |-> h, duration |-> undefinedNum] : h \in Heights}
    \cup {[height |-> 300, duration |-> Num(0)]}

PayloadsOf(emitter) ==
    IF emitter = "KeyboardControllerEvents" THEN ControllerEvents ELSE KeyboardEvents

----------------------------------------------------------------------------
(* Module-level constants *)

SHOWN == "SHOWN"
HIDDEN == "HIDDEN"
UNDETERMINED == "UNDETERMINED"

SCREEN_HEIGHT == 800

\* Faulty variant: the platform is not looked at.
useKeyboardControllerEvents_IgnoresPlatform == rnkcAvailable

useKeyboardControllerEvents == platformOS = "android" /\ rnkcAvailable

KEYBOARD_EVENT_MAPPER ==
    [KEYBOARD_SHOW |->
        CASE platformOS = "ios" -> "keyboardWillShow"
          [] platformOS = "android" ->
                IF useKeyboardControllerEvents THEN "keyboardWillShow" ELSE "keyboardDidShow"
          [] OTHER -> "",
     KEYBOARD_HIDE |->
        CASE platformOS = "ios" -> "keyboardWillHide"
          [] platformOS = "android" ->
                IF useKeyboardControllerEvents THEN "keyboardWillHide" ELSE "keyboardDidHide"
          [] OTHER -> ""]

INITIAL_STATE ==
    [status |-> UNDETERMINED,
     height |-> 0,
     heightWithinContainer |-> 0,
     easing |-> "keyboard",
     duration |-> Num(500),
     target |-> undefined]

----------------------------------------------------------------------------
(* JavaScript helpers *)

\* Truthiness of an optional string (`!currentState.target`, `!result`).
Truthy(v) == v # undefined /\ v # null /\ v # ""

\* Truthiness of an optional number (`if (bottomOffset)`).
TruthyNum(n) == n # undefinedNum /\ n[1] # 0

\* `a ?? b` on optional numbers.
Coalesce(a, b) == IF a = undefinedNum THEN b ELSE a

----------------------------------------------------------------------------
(* The worklet handleKeyboardEvent, lines 68-123.  `currentState` and      *)
(* `cached` are the values of the two shared cells when it runs; it        *)
(* returns their new values and whether state.set was called.              *)

\* temporaryCachedState.set({status, height, duration, easing}); return
Cached(currentState, status, height, duration, easing) ==
    [state |-> currentState,
     temporaryCachedState |->
         <<[status |-> status, height |-> height,
            duration |-> duration, easing |-> easing]>>,
     committed |-> FALSE]

\* Faulty variant: state.set leaves the status as it was.
Committed_KeepsStatus(currentState, cached, status, adjustedHeight, duration, easing) ==
    [state |->
         [status |-> currentState.status,
          easing |-> easing,
          duration |-> duration,
          height |-> adjustedHeight,
          target |-> currentState.target,
          heightWithinContainer |-> currentState.heightWithinContainer],
     temporaryCachedState |-> cached,
     committed |-> TRUE]

\* state.set(state => ({status, easing, duration, height: adjustedHeight, ...}))
Committed(currentState, cached, status, adjustedHeight, duration, easing) ==
    [state |->
         [status |-> status,
          easing |-> easing,
          duration |-> duration,
          height |-> adjustedHeight,
          target |-> currentState.target,
          heightWithinContainer |-> currentState.heightWithinContainer],
     temporaryCachedState |-> cached,
     committed |-> TRUE]

\* Lines 102-111: the height a commit writes.
AdjustedHeight(currentState, status, height, bottomOffset) ==
    LET adjustedHeight == IF status = SHOWN THEN height ELSE currentState.height
    IN  IF TruthyNum(bottomOffset)
        THEN adjustedHeight + bottomOffset[1]
        ELSE adjustedHeight

\* Faulty variant: without the early return of lines 84-92, a show event is
\* committed even while target is unset.
handleKeyboardEvent_NoCache(currentState, cached, status, height, duration, easing, bottomOffset) ==
    Committed(currentState, << >>, status,
              AdjustedHeight(currentState, status, height, bottomOffset),
              duration, easing)

\* Faulty variant: without the ternary of lines 102-103, a hide event
\* overwrites the height.
handleKeyboardEvent_HideSetsHeight(currentState, cached, status, height, duration, easing, bottomOffset) ==
    IF status = SHOWN /\ ~Truthy(currentState.target)
    THEN Cached(currentState, status, height, duration, easing)
    ELSE Committed(currentState, << >>, status,
                   AdjustedHeight(currentState, SHOWN, height, bottomOffset),
                   duration, easing)

\* Faulty variant: state.set({status, easing, duration, height}) in place of
\* the updater of lines 113-120, so target and heightWithinContainer are lost.
handleKeyboardEvent_DropsTarget(currentState, cached, status, height, duration, easing, bottomOffset) ==
    IF status = SHOWN /\ ~Truthy(currentState.target)
    THEN Cached(currentState, status, height, duration, easing)
    ELSE LET c == Committed(currentState, << >>, status,
                            AdjustedHeight(currentState, status, height, bottomOffset),
                            duration, easing)
         IN  [c EXCEPT !.state.target = undefined,
                       !.state.heightWithinContainer = 0]

\* Faulty variant: without line 97, a commit leaves the cached event in place.
handleKeyboardEvent_KeepsCache(currentState, cached, status, height, duration, easing, bottomOffset) ==
    IF status = SHOWN /\ ~Truthy(currentState.target)
    THEN Cached(currentState, status, height, duration, easing)
    ELSE Committed(currentState, cached, status,
                   AdjustedHeight(currentState, status, height, bottomOffset),
                   duration, easing)

\* Faulty variant: the offset is never added (lines 109-111 missing).
handleKeyboardEvent_NoOffset(currentState, cached, status, height, duration, easing, bottomOffset) ==
    IF status = SHOWN /\ ~Truthy(currentState.target)
    THEN Cached(currentState, status, height, duration, easing)
    ELSE Committed(currentState, << >>, status,
                   AdjustedHeight(currentState, status, height, undefinedNum),
                   duration, easing)

\* Faulty variant: line 97 runs for a show event only, so a hide event leaves
\* a pending event in the cache.
handleKeyboardEvent_HideKeepsCache(currentState, cached, status, height, duration, easing, bottomOffset) ==
    IF status = SHOWN /\ ~Truthy(currentState.target)
    THEN Cached(currentState, status, height, duration, easing)
    ELSE Committed(currentState, IF status = HIDDEN THEN cached ELSE << >>, status,
                   AdjustedHeight(currentState, status, height, bottomOffset),
                   duration, easing)

\* Faulty variant: a pending event is not overwritten by a later show event.
handleKeyboardEvent_KeepsFirst(currentState, cached, status, height, duration, easing, bottomOffset) ==
    IF status = SHOWN /\ ~Truthy(currentState.target)
    THEN IF cached # << >>
         THEN [state |-> currentState, temporaryCachedState |-> cached,
               committed |-> FALSE]
         ELSE Cached(currentState, status, height, duration, easing)
    ELSE Committed(currentState, << >>, status,
                   AdjustedHeight(currentState, status, height, bottomOffset),
                   duration, easing)

handleKeyboardEvent(currentState, cached, status, height, duration, easing, bottomOffset) ==
    IF status = SHOWN /\ ~Truthy(currentState.target)
    THEN Cached(currentState, status, height, duration, easing)
    ELSE Committed(currentState, << >>, status,
                   AdjustedHeight(currentState, status, height, bottomOffset),
                   duration, easing)

\* The argument list a listener hands to runOnUI(handleKeyboardEvent).
Call(status, height, duration, easing, bottomOffset) ==
    [status |-> status, height |-> height, duration |-> duration,
     easing |-> easing, bottomOffset |-> bottomOffset]

\* Faulty variant: `||` in place of `??`, so a duration of 0 becomes 250 too.
handleOnKeyboardShowKC_OrDefault(event) ==
    Call(SHOWN, event.height,
         IF event.duration = undefinedNum \/ event.duration = Num(0)
         THEN Num(250) ELSE event.duration,
         "keyboard", Num(0))

\* Faulty variant: the hide listener passes the offset as the show listener does.
handleOnKeyboardHide_WithOffset(event) ==
    Call(HIDDEN, event.endCoordinates.height, event.duration, event.easing,
         Num(SCREEN_HEIGHT - event.endCoordinates.height - event.endCoordinates.screenY))

\* Faulty variant: the offset is taken from the top of the keyboard alone.
handleOnKeyboardShow_WrongOffset(event) ==
    Call(SHOWN, event.endCoordinates.height, event.duration, event.easing,
         Num(SCREEN_HEIGHT - event.endCoordinates.screenY))

\* Listeners of the react-native-keyboard-controller branch, lines 134-150.
handleOnKeyboardShowKC(event) ==
    Call(SHOWN, event.height, Coalesce(event.duration, Num(250)), "keyboard", Num(0))

handleOnKeyboardHideKC(event) ==
    Call(HIDDEN, event.height, Coalesce(event.duration, Num(250)), "keyboard", undefinedNum)

\* Listeners of the Keyboard API branch, lines 170-188.
handleOnKeyboardShow(event) ==
    Call(SHOWN, event.endCoordinates.height, event.duration, event.easing,
         Num(SCREEN_HEIGHT - event.endCoordinates.height - event.endCoordinates.screenY))

handleOnKeyboardHide(event) ==
    Call(HIDDEN, event.endCoordinates.height, event.duration, event.easing, undefinedNum)

----------------------------------------------------------------------------
(* Subscriptions *)

NoSubscription == [emitter |-> "", name |-> "", active |-> FALSE]

\* addListener(name, cb) on the given emitter.
addListener(emitter, name) == [emitter |-> emitter, name |-> name, active |-> TRUE]

\* subscription.remove()
remove(sub) == [sub EXCEPT !.active = FALSE]

Listens(sub, emitter, name) ==
    sub.active /\ sub.emitter = emitter /\ sub.name = name

\* The calls the registered listeners enqueue when `emitter` emits `name`.
Dispatch(emitter, name, event) ==
    (IF Listens(showSubscription, emitter, name)
     THEN <<IF emitter = "KeyboardControllerEvents"
            THEN handleOnKeyboardShowKC(event) ELSE handleOnKeyboardShow(event)>>
     ELSE << >>)
    \o
    (IF Listens(hideSubscription, emitter, name)
     THEN <<IF emitter = "KeyboardControllerEvents"
            THEN handleOnKeyboardHideKC(event) ELSE handleOnKeyboardHide(event)>>
     ELSE << >>)

----------------------------------------------------------------------------
(* Initial state: the hook has rendered, its effects have not run yet. *)

Init ==
    /\ platformOS \in Platforms
    /\ rnkcAvailable \in BOOLEAN
    /\ phase = "rendered"
    /\ showSubscription = NoSubscription
    /\ hideSubscription = NoSubscription
    /\ state = INITIAL_STATE
    /\ temporaryCachedState = << >>
    /\ previous = null
    /\ dirty = TRUE
    /\ uiQueue = << >>
    /\ emittedAfterDisposal = FALSE
    /\ lastCommit = "none"

----------------------------------------------------------------------------
(* Actions *)

\* The body of the subscription effect, lines 127-199.
Mount ==
    /\ phase = "rendered"
    /\ phase' = "mounted"
    /\ LET emitter == IF useKeyboardControllerEvents /\ rnkcAvailable
                      THEN "KeyboardControllerEvents" ELSE "Keyboard"
       IN  /\ showSubscription' = addListener(emitter, KEYBOARD_EVENT_MAPPER.KEYBOARD_SHOW)
           /\ hideSubscription' = addListener(emitter, KEYBOARD_EVENT_MAPPER.KEYBOARD_HIDE)
    /\ UNCHANGED <<platformOS, rnkcAvailable, state, temporaryCachedState,
                   previous, dirty, uiQueue, emittedAfterDisposal, lastCommit>>

\* Faulty variant: the cleanup removes the show listener only.
Dispose_KeepsHideListener ==
    /\ phase = "mounted"
    /\ phase' = "disposed"
    /\ showSubscription' = remove(showSubscription)
    /\ UNCHANGED <<platformOS, rnkcAvailable, hideSubscription, state,
                   temporaryCachedState, previous, dirty, uiQueue,
                   emittedAfterDisposal, lastCommit>>

\* The cleanup of the subscription effect, lines 161-164 and 200-203.
Dispose ==
    /\ phase = "mounted"
    /\ phase' = "disposed"
    /\ showSubscription' = remove(showSubscription)
    /\ hideSubscription' = remove(hideSubscription)
    /\ UNCHANGED <<platformOS, rnkcAvailable, state, temporaryCachedState,
                   previous, dirty, uiQueue, emittedAfterDisposal, lastCommit>>

\* The platform emits notification `name` of `emitter` with payload `event`:
\* the listeners registered for it run on the JS thread and enqueue their call
\* of handleKeyboardEvent (runOnUI).
Emit(emitter, name, event) ==
    /\ emitter = "KeyboardControllerEvents" => rnkcAvailable
    /\ Dispatch(emitter, name, event) # << >>
    /\ Len(uiQueue) + Len(Dispatch(emitter, name, event)) <= MaxQueue
    /\ uiQueue' = uiQueue \o Dispatch(emitter, name, event)
    /\ emittedAfterDisposal' = (phase = "disposed")
    /\ UNCHANGED <<platformOS, rnkcAvailable, phase, showSubscription,
                   hideSubscription, state, temporaryCachedState, previous, dirty,
                   lastCommit>>

\* The platform emits a notification that no registered listener is subscribed
\* to: nothing of the hook runs, whatever the payload.
EmitUnheard(emitter, name) ==
    /\ emitter = "KeyboardControllerEvents" => rnkcAvailable
    /\ ~Listens(showSubscription, emitter, name)
    /\ ~Listens(hideSubscription, emitter, name)
    /\ emittedAfterDisposal' = (phase = "disposed")
    /\ UNCHANGED <<platformOS, rnkcAvailable, phase, showSubscription,
                   hideSubscription, state, temporaryCachedState, previous, dirty,
                   uiQueue, lastCommit>>

\* The UI thread runs the oldest queued call of handleKeyboardEvent.
RunOnUI ==
    /\ uiQueue # << >>
    /\ LET c == Head(uiQueue)
           r == handleKeyboardEvent(state, temporaryCachedState, c.status, c.height,
                                    c.duration, c.easing, c.bottomOffset)
       IN  /\ state' = r.state
           /\ temporaryCachedState' = r.temporaryCachedState
           /\ dirty' = (dirty \/ r.committed)
           /\ lastCommit' = IF r.committed THEN "event" ELSE lastCommit
    /\ uiQueue' = Tail(uiQueue)
    /\ UNCHANGED <<platformOS, rnkcAvailable, phase, showSubscription,
                   hideSubscription, previous, emittedAfterDisposal>>

\* Faulty variant: the comparison with `previous` is missing.
ShouldReact_IgnoresPrevious(result, prev) == Truthy(result)

\* Faulty variant: the replay takes the height from the current state.
Replay_CurrentHeight(currentState, cached) ==
    handleKeyboardEvent(currentState, cached, cached[1].status, currentState.height,
                        cached[1].duration, cached[1].easing, undefinedNum)

\* Faulty variant: the replayed event stays in the cache.
Replay_KeepsPending(currentState, cached) ==
    [handleKeyboardEvent(currentState, cached, cached[1].status, cached[1].height,
                         cached[1].duration, cached[1].easing, undefinedNum)
        EXCEPT !.temporaryCachedState = cached]

\* The call of lines 223-228: handleKeyboardEvent on the cached fields, without
\* a bottomOffset.
Replay(currentState, cached) ==
    LET cachedState == cached[1]
    IN  handleKeyboardEvent(currentState, cached, cachedState.status,
                            cachedState.height, cachedState.duration,
                            cachedState.easing, undefinedNum)

\* Whether the reaction goes on to read the cache, line 214.
ShouldReact(result, prev) == Truthy(result) /\ result # prev

\* One run of the reaction on state.value.target, lines 211-231.
TargetWatcher ==
    /\ dirty
    /\ LET result == state.target
       IN  /\ IF ShouldReact(result, previous) /\ temporaryCachedState # << >>
              THEN LET r == Replay(state, temporaryCachedState)
                   IN  /\ state' = r.state
                       /\ temporaryCachedState' = r.temporaryCachedState
                       /\ dirty' = r.committed
                       /\ lastCommit' = IF r.committed THEN "replay" ELSE lastCommit
              ELSE /\ dirty' = FALSE
                   /\ UNCHANGED <<state, temporaryCachedState, lastCommit>>
           /\ previous' = result
    /\ UNCHANGED <<platformOS, rnkcAvailable, phase, showSubscription,
                   hideSubscription, uiQueue, emittedAfterDisposal>>

\* The focus tracker writes state.target (focus, blur, or the same value again).
SetTarget(t) ==
    /\ state' = [state EXCEPT !.target = t]
    /\ dirty' = TRUE
    /\ UNCHANGED <<platformOS, rnkcAvailable, phase, showSubscription,
                   hideSubscription, temporaryCachedState, previous, uiQueue,
                   emittedAfterDisposal, lastCommit>>

\* The sheet writes state.heightWithinContainer.
SetHeightWithinContainer(h) ==
    /\ state' = [state EXCEPT !.heightWithinContainer = h]
    /\ dirty' = TRUE
    /\ UNCHANGED <<platformOS, rnkcAvailable, phase, showSubscription,
                   hideSubscription, temporaryCachedState, previous, uiQueue,
                   emittedAfterDisposal, lastCommit>>

EmitAny ==
    \E emitter \in Emitters, name \in EventNames :
        \/ \E event \in PayloadsOf(emitter) : Emit(emitter, name, event)
        \/ EmitUnheard(emitter, name)

Collaborator ==
    \/ \E t \in Targets \cup {undefined} : SetTarget(t)
    \/ \E h \in ContainerHeights : SetHeightWithinContainer(h)

Next ==
    \/ Mount
    \/ Dispose
    \/ EmitAny
    \/ RunOnUI
    \/ TargetWatcher
    \/ Collaborator

Spec == Init /\ [][Next]_vars

----------------------------------------------------------------------------
(* Properties *)

\* The step in which the UI thread runs the oldest queued call.
RanCall == uiQueue # << >> /\ uiQueue' = Tail(uiQueue)

\* The fields of KeyboardState that handleKeyboardEvent computes.
Computed(st) == <<st.status, st.height, st.duration, st.easing>>

\* The reaction is about to replay the cached event.
ReplayDue ==
    /\ dirty
    /\ temporaryCachedState # << >>
    /\ Truthy(state.target)
    /\ state.target # previous

\* A step of this module, as opposed to a write by the external collaborator.
ModuleStep == Mount \/ Dispose \/ EmitAny \/ RunOnUI \/ TargetWatcher

\* C1: a call with status SHOWN that runs while target is unset stores
\* {status, height, duration, easing} in the cache and leaves KeyboardState as
\* it was; and no step makes the computed fields of a SHOWN state while target
\* is unset.
C1_ShowWithoutTargetIsCached ==
    /\ [][(RanCall /\ Head(uiQueue).status = SHOWN /\ ~Truthy(state.target))
            => /\ state' = state
               /\ temporaryCachedState' =
                      <<[status |-> SHOWN,
                         height |-> Head(uiQueue).height,
                         duration |-> Head(uiQueue).duration,
                         easing |-> Head(uiQueue).easing]>>]_vars
    /\ [][(state'.status = SHOWN /\ Computed(state') # Computed(state))
            => Truthy(state.target) /\ state'.target = state.target]_vars

\* A show event was cached while nothing had been committed yet.
C1_Witness ==
    /\ temporaryCachedState # << >>
    /\ state = INITIAL_STATE
    /\ uiQueue = << >>

C3_HideKeepsHeight ==
    /\ [][(RanCall /\ Head(uiQueue).status = HIDDEN)
            => state'.status = HIDDEN /\ state'.height = state.height]_vars
    /\ [][(state'.height # state.height)
            => \/ RanCall /\ Head(uiQueue).status = SHOWN /\ Truthy(state.target)
               \/ TargetWatcher /\ ReplayDue]_vars

\* The keyboard was shown and then hidden: the height of the show is kept.
C3_Witness ==
    /\ state.status = HIDDEN
    /\ state.height = 300
    /\ Truthy(state.target)
    /\ uiQueue = << >>

\* C4: no step of this module changes target or heightWithinContainer, so
\* both always hold what the external collaborator wrote last.
C4_TargetNeverWritten ==
    [][ModuleStep => /\ state'.target = state.target
                     /\ state'.heightWithinContainer = state.heightWithinContainer]_vars

\* Events were committed and replayed around the collaborator's writes.
C4_Witness ==
    /\ lastCommit = "replay"
    /\ state.status = SHOWN
    /\ state.target = "B"
    /\ state.heightWithinContainer = 120

\* C5: a run of the reaction that observes an unset target, or the target it
\* observed on its last run, replays nothing: it leaves KeyboardState and the
\* cache as they are, also when an event is pending.  So neither writing the
\* same target again nor a commit of handleKeyboardEvent (which rewrites the
\* state with target unchanged) causes a replay.
C5_SameTargetNoReplay ==
    [][(TargetWatcher /\ (~Truthy(state.target) \/ state.target = previous))
        => UNCHANGED <<state, temporaryCachedState, lastCommit>>]_vars

\* The reaction has run on a target it had observed before while an event was
\* pending, and the event is still pending.
C5_Witness ==
    /\ ~dirty
    /\ temporaryCachedState # << >>
    /\ Truthy(state.target)
    /\ previous = state.target

\* C6: no queued call other than a show call of the Keyboard source carries
\* an offset that is added; a hide call commits the stored height, a show call
\* of the keyboard-controller source commits the event's height, and a replay
\* commits the cached height.
C6_OffsetOnlyOnPrimaryShow ==
    /\ [](\A i \in 1..Len(uiQueue) :
            TruthyNum(uiQueue[i].bottomOffset)
                => uiQueue[i].status = SHOWN /\ ~useKeyboardControllerEvents)
    /\ [][RanCall =>
            /\ Head(uiQueue).status = HIDDEN => state'.height = state.height
            /\ (Head(uiQueue).status = SHOWN /\ useKeyboardControllerEvents
                    /\ Truthy(state.target))
                  => state'.height = Head(uiQueue).height]_vars
    /\ [][(TargetWatcher /\ ReplayDue)
            => state'.height = temporaryCachedState[1].height]_vars

\* A show event of the keyboard-controller source was committed, then a hide.
C6_Witness ==
    /\ useKeyboardControllerEvents
    /\ state.status = HIDDEN
    /\ state.height = 280
    /\ state.duration = Num(0)

\* C7: the show listener of the Keyboard source passes
\* bottomOffset = SCREEN_HEIGHT - endCoordinates.height - endCoordinates.screenY,
\* and a show call of that source that runs with target set commits
\* height + bottomOffset when bottomOffset is non-zero and height otherwise.
C7_BottomOffset ==
    /\ [][\A event \in KeyboardEvents :
            Emit("Keyboard", KEYBOARD_EVENT_MAPPER.KEYBOARD_SHOW, event)
                => LET c == uiQueue'[Len(uiQueue')]
                   IN  /\ c.status = SHOWN
                       /\ c.height = event.endCoordinates.height
                       /\ c.bottomOffset =
                              Num(SCREEN_HEIGHT - event.endCoordinates.height
                                    - event.endCoordinates.screenY)]_vars
    /\ [][(RanCall /\ Head(uiQueue).status = SHOWN /\ Truthy(state.target)
              /\ ~useKeyboardControllerEvents)
            => LET c == Head(uiQueue)
               IN  state'.height =
                       IF c.bottomOffset[1] # 0
                       THEN c.height + c.bottomOffset[1]
                       ELSE c.height]_vars

\* A show event of the Keyboard source with a negative offset was committed:
\* height 300 at screenY 520 on a screen of 800 gives 280.
C7_Witness ==
    /\ ~useKeyboardControllerEvents
    /\ lastCommit = "event"
    /\ state.status = SHOWN
    /\ state.height = 280
    /\ state.duration = Num(250)

\* C8: every run of handleKeyboardEvent that writes KeyboardState (a hide call,
\* a show call with target set, a replay) leaves the cache empty.
C8_CommitClearsCache ==
    /\ [][(RanCall /\ ~(Head(uiQueue).status = SHOWN /\ ~Truthy(state.target)))
            => temporaryCachedState' = << >>]_vars
    /\ [][(TargetWatcher /\ ReplayDue) => temporaryCachedState' = << >>]_vars
    /\ [][(Computed(state') # Computed(state)) => temporaryCachedState' = << >>]_vars

\* The reaction has just replayed a pending event: nothing is pending any more.
C8_Witness ==
    /\ lastCommit = "replay"
    /\ dirty
    /\ previous = state.target
    /\ temporaryCachedState = << >>

\* The easing a payload carries: the keyboard-controller payload has none.
EasingOf(emitter, event) ==
    IF emitter = "KeyboardControllerEvents" THEN undefined ELSE event.easing

\* The call enqueued last.
LastCall == uiQueue'[Len(uiQueue')]

C10_DisposedIgnoresNotifications ==
    /\ [](phase = "disposed"
            => ~showSubscription.active /\ ~hideSubscription.active)
    /\ [][(phase = "disposed" /\ EmitAny)
            => UNCHANGED <<state, temporaryCachedState, uiQueue>>]_vars
    /\ [][phase = "disposed" => Len(uiQueue') <= Len(uiQueue)]_vars

\* Events were handled while mounted, and a notification was emitted after
\* disposal.
C10_Witness ==
    /\ phase = "disposed"
    /\ emittedAfterDisposal
    /\ lastCommit = "event"
    /\ uiQueue = << >>

\* C11: once the subscription effect has run, the show and the hide listener
\* are both registered on one source: react-native-keyboard-controller exactly
\* when the platform is android and that module is available, the Keyboard
\* module otherwise; and they are registered for keyboardWillShow and
\* keyboardWillHide on ios, for the same two names on android if the
\* keyboard-controller source is in use, and for keyboardDidShow and
\* keyboardDidHide on android otherwise.
C11_SourceAndEventNames ==
    phase = "mounted" =>
        LET alternative == platformOS = "android" /\ rnkcAvailable
            will == platformOS = "ios" \/ alternative
        IN  /\ showSubscription.active /\ hideSubscription.active
            /\ showSubscription.emitter =
                   IF alternative THEN "KeyboardControllerEvents" ELSE "Keyboard"
            /\ hideSubscription.emitter = showSubscription.emitter
            /\ platformOS \in {"ios", "android"} =>
                   /\ showSubscription.name =
                          IF will THEN "keyboardWillShow" ELSE "keyboardDidShow"
                   /\ hideSubscription.name =
                          IF will THEN "keyboardWillHide" ELSE "keyboardDidHide"

\* On android with react-native-keyboard-controller available, a notification
\* of that source reached handleKeyboardEvent through the registered listeners.
C11_Witness ==
    /\ phase = "mounted"
    /\ platformOS = "android"
    /\ rnkcAvailable
    /\ showSubscription.emitter = "KeyboardControllerEvents"
    /\ showSubscription.name = "keyboardWillShow"
    /\ lastCommit = "event"

\* C12: a hide call that runs while target is unset empties the cache,
\* whatever was pending, and commits the status HIDDEN; and from then on, as
\* long as no further queued call runs, neither the assignment of a target nor
\* the reaction to it replays anything: the cache stays empty, the status stays
\* HIDDEN and the computed fields stay as the hide call committed them.
C12_HideClearsCache ==
    /\ [][(RanCall /\ Head(uiQueue).status = HIDDEN /\ ~Truthy(state.target))
            => /\ temporaryCachedState' = << >>
               /\ state'.status = HIDDEN]_vars
    /\ [][(~RanCall /\ temporaryCachedState = << >> /\ state.status = HIDDEN)
            => /\ temporaryCachedState' = << >>
               /\ Computed(state') = Computed(state)]_vars

\* A show event is pending, target is still unset, and the call of the hide
\* listener is the next one the UI thread runs.
C12_Witness ==
    /\ temporaryCachedState # << >>
    /\ ~Truthy(state.target)
    /\ uiQueue # << >>
    /\ Head(uiQueue).status = HIDDEN

\* The fields of KeyboardState the two orders of the race are compared on.
Outcome(st) == <<st.status, st.height, st.duration, st.easing, st.target>>

\* C13: whenever the call of a show listener is about to run while target is
\* unset, running it first and assigning a target afterwards (the call caches
\* the event, the reaction to the new target replays it) ends in the same
\* status, height, duration, easing and target as assigning that target first
\* and running the call afterwards (the call commits the event).
C13_RaceResolved ==
    (uiQueue # << >> /\ Head(uiQueue).status = SHOWN /\ ~Truthy(state.target))
        => \A t \in Targets \ {previous} :
              LET c == Head(uiQueue)
                  showFirst ==
                      handleKeyboardEvent(state, temporaryCachedState, c.status,
                                          c.height, c.duration, c.easing,
                                          c.bottomOffset)
                  thenTarget ==
                      Replay([showFirst.state EXCEPT !.target = t],
                             showFirst.temporaryCachedState)
                  targetFirst ==
                      handleKeyboardEvent([state EXCEPT !.target = t],
                                          temporaryCachedState, c.status,
                                          c.height, c.duration, c.easing,
                                          c.bottomOffset)
              IN  Outcome(thenTarget.state) = Outcome(targetFirst.state)

\* C14: the cache is a single slot; a show call that runs while target is unset
\* and an earlier show event is still pending replaces the pending event by its
\* own fields; and the replay commits the height, duration and easing of the
\* one event the slot holds at that moment.
C14_CacheHoldsLatestShow ==
    /\ [](Len(temporaryCachedState) <= 1)
    /\ [][(RanCall /\ Head(uiQueue).status = SHOWN /\ ~Truthy(state.target)
             /\ temporaryCachedState # << >>)
            => /\ Len(temporaryCachedState') = 1
               /\ temporaryCachedState'[1].height = Head(uiQueue).height
               /\ temporaryCachedState'[1].duration = Head(uiQueue).duration
               /\ temporaryCachedState'[1].easing = Head(uiQueue).easing]_vars
    /\ [][(TargetWatcher /\ ReplayDue)
            => <<state'.height, state'.duration, state'.easing>> =
                  <<temporaryCachedState[1].height,
                    temporaryCachedState[1].duration,
                    temporaryCachedState[1].easing>>]_vars

\* A show event is pending, target is still unset, and the next call the UI
\* thread runs is that of a later show event with another height, duration
\* and easing.
C14_Witness ==
    /\ temporaryCachedState # << >>
    /\ ~Truthy(state.target)
    /\ uiQueue # << >>
    /\ Head(uiQueue).status = SHOWN
    /\ Head(uiQueue).height # temporaryCachedState[1].height
    /\ Head(uiQueue).duration # temporaryCachedState[1].duration
    /\ Head(uiQueue).easing # temporaryCachedState[1].easing

\* C15: in every state in which the reaction has run since the last write to
\* KeyboardState, an event held in the cache has the status SHOWN and
\* KeyboardState.target is unset.
C15_PendingOnlyWhileTargetUnset ==
    (~dirty /\ temporaryCachedState # << >>)
        => /\ temporaryCachedState[1].status = SHOWN
           /\ ~Truthy(state.target)

\* C16: the replay of a cached event empties the cache; while the cache is
\* empty a run of the reaction commits nothing, whatever the target has become;
\* a hide call commits the status HIDDEN with the stored height and leaves the
\* cache empty; and the cache only gets a new content when the call of a show
\* listener runs while target is unset.  So one cached event is committed at
\* most once.
C16_ReplayedAtMostOnce ==
    /\ [][(TargetWatcher /\ ReplayDue)
            => temporaryCachedState # << >> /\ temporaryCachedState' = << >>]_vars
    /\ [][(TargetWatcher /\ temporaryCachedState = << >>)
            => UNCHANGED <<state, temporaryCachedState, lastCommit>>]_vars
    /\ [][(RanCall /\ Head(uiQueue).status = HIDDEN)
            => /\ state'.status = HIDDEN
               /\ state'.height = state.height
               /\ temporaryCachedState' = << >>]_vars
    /\ [][(temporaryCachedState' # << >>
             /\ temporaryCachedState' # temporaryCachedState)
            => /\ RanCall
               /\ Head(uiQueue).status = SHOWN
               /\ ~Truthy(state.target)]_vars

\* The last commit was a replay, which needs a target; since then the target
\* has been unset, the reaction has run on that, and nothing is pending.
C16_Witness ==
    /\ lastCommit = "replay"
    /\ ~Truthy(state.target)
    /\ previous = undefined
    /\ ~dirty
    /\ temporaryCachedState = << >>

\* C17: KeyboardState starts with the status UNDETERMINED, the height 0, the
\* heightWithinContainer 0 and no target, and the cache starts empty; no step
\* takes the status from SHOWN or HIDDEN to UNDETERMINED; and once
\* handleKeyboardEvent has committed anything the status is SHOWN or HIDDEN.
C17_UndeterminedOnlyInitially ==
    /\ state.status = UNDETERMINED
    /\ state.height = 0
    /\ state.heightWithinContainer = 0
    /\ state.target = undefined
    /\ temporaryCachedState = << >>
    /\ [][state.status # UNDETERMINED => state'.status # UNDETERMINED]_vars
    /\ [](lastCommit # "none" => state.status \in {SHOWN, HIDDEN})

\* The first commit was that of a hide event: the status is HIDDEN, and the
\* height is still the initial 0.
C17_Witness ==
    /\ lastCommit = "event"
    /\ state.status = HIDDEN
    /\ state.height = 0
    /\ ~Truthy(state.target)

====
